---------------------------- MODULE Spec2Model ----------------------------
(***************************************************************************)
(* A model of .github/scripts/fetch-and-commit.js, the asset synchronizer  *)
(* of this repository: read assets-to-fetch.json, fetch every entry,       *)
(* resolve the destination's extension, write the file when its bytes      *)
(* differ, and hand the changed paths to git.                              *)
(*                                                                         *)
(* Text is a sequence of one-character strings, a payload a sequence of    *)
(* byte values 0..255, so that the code's string and byte operations       *)
(* (split, trim, toLowerCase, the regular expression of hasExtension, the  *)
(* magic numbers, the shell's reading of a quoted word) are computed and   *)
(* not assumed.                                                            *)
(***************************************************************************)
EXTENDS Integers, Sequences, FiniteSets, TLC

(***************************************************************************)
(* Bounds of the model.                                                    *)
(***************************************************************************)
\* The longest mapping array the checked behaviours read.
MaxEntries == 2

(***************************************************************************)
(* Text helpers.                                                           *)
(***************************************************************************)
Upper == <<"A", "B", "C", "D", "E", "F", "G", "H", "I", "J", "K", "L", "M",
           "N", "O", "P", "Q", "R", "S", "T", "U", "V", "W", "X", "Y", "Z">>
Lower == <<"a", "b", "c", "d", "e", "f", "g", "h", "i", "j", "k", "l", "m",
           "n", "o", "p", "q", "r", "s", "t", "u", "v", "w", "x", "y", "z">>
Digits == <<"0", "1", "2", "3", "4", "5", "6", "7", "8", "9">>

Range(s) == {s[k] : k \in DOMAIN s}

Min(a, b) == IF a < b THEN a ELSE b

\* [a-zA-Z0-9]
IsAlnum(c) == c \in Range(Upper) \cup Range(Lower) \cup Range(Digits)

\* [A-Za-z0-9_], the characters of a shell variable's name
IsNameChar(c) == IsAlnum(c) \/ c = "_"

\* The white space String.prototype.trim removes (the part of it the model's
\* alphabet holds).
IsSpace(c) == c \in {" ", "\t", "\n", "\r"}

\* String.prototype.toLowerCase, one character.
LowerChar(c) ==
  IF c \in Range(Upper)
    THEN Lower[CHOOSE k \in DOMAIN Upper : Upper[k] = c]
    ELSE c

toLowerCase(s) == [k \in DOMAIN s |-> LowerChar(s[k])]

\* s.split(sep)[0]: the text before the first sep, all of s without one.
SplitFirst(s, sep) ==
  IF \E k \in DOMAIN s : s[k] = sep
    THEN SubSeq(s, 1, (CHOOSE k \in DOMAIN s :
                         s[k] = sep /\ \A j \in 1..(k - 1) : s[j] # sep) - 1)
    ELSE s

\* String.prototype.trim
trim(s) ==
  IF \A k \in DOMAIN s : IsSpace(s[k])
    THEN <<>>
    ELSE LET a == CHOOSE k \in DOMAIN s :
                    ~IsSpace(s[k]) /\ \A j \in 1..(k - 1) : IsSpace(s[j])
             b == CHOOSE k \in DOMAIN s :
                    ~IsSpace(s[k]) /\ \A j \in (k + 1)..Len(s) : IsSpace(s[j])
         IN  SubSeq(s, a, b)

\* s.startsWith(p)
startsWith(s, p) == Len(s) >= Len(p) /\ SubSeq(s, 1, Len(p)) = p

\* s.includes(p)
includes(s, p) ==
  \E k \in 1..(Len(s) - Len(p) + 1) : SubSeq(s, k, k + Len(p) - 1) = p

(***************************************************************************)
(* mapCTypeToExt: the extension of a declared content type, <<>> ("") for  *)
(* an absent or unlisted one.                                              *)
(***************************************************************************)
EXT_svg  == <<"s", "v", "g">>
EXT_png  == <<"p", "n", "g">>
EXT_jpg  == <<"j", "p", "g">>
EXT_webp == <<"w", "e", "b", "p">>
EXT_gif  == <<"g", "i", "f">>
EXT_ico  == <<"i", "c", "o">>
EXT_txt  == <<"t", "x", "t">>
EXT_json == <<"j", "s", "o", "n">>
EXT_bin  == <<"b", "i", "n">>

CT_svg   == <<"i", "m", "a", "g", "e", "/", "s", "v", "g", "+", "x", "m", "l">>
CT_png   == <<"i", "m", "a", "g", "e", "/", "p", "n", "g">>
CT_jpeg  == <<"i", "m", "a", "g", "e", "/", "j", "p", "e", "g">>
CT_jpg   == <<"i", "m", "a", "g", "e", "/", "j", "p", "g">>
CT_webp  == <<"i", "m", "a", "g", "e", "/", "w", "e", "b", "p">>
CT_gif   == <<"i", "m", "a", "g", "e", "/", "g", "i", "f">>
CT_xicon == <<"i", "m", "a", "g", "e", "/", "x", "-", "i", "c", "o", "n">>
CT_msicon == <<"i", "m", "a", "g", "e", "/", "v", "n", "d", ".", "m", "i", "c",
               "r", "o", "s", "o", "f", "t", ".", "i", "c", "o", "n">>
CT_text  == <<"t", "e", "x", "t", "/", "p", "l", "a", "i", "n">>
CT_json  == <<"a", "p", "p", "l", "i", "c", "a", "t", "i", "o", "n", "/",
              "j", "s", "o", "n">>


mapCTypeToExt(ctypeRaw) ==
  IF ctypeRaw = <<>> THEN <<>>
  ELSE LET ctype == toLowerCase(trim(SplitFirst(ctypeRaw, ";")))
       IN  CASE ctype = CT_svg -> EXT_svg
             [] ctype = CT_png -> EXT_png
             [] ctype = CT_jpeg -> EXT_jpg
             [] ctype = CT_jpg -> EXT_jpg
             [] ctype = CT_webp -> EXT_webp
             [] ctype = CT_gif -> EXT_gif
             [] ctype \in {CT_xicon, CT_msicon} -> EXT_ico
             [] ctype = CT_text -> EXT_txt
             [] ctype = CT_json -> EXT_json
             [] OTHER -> <<>>

(***************************************************************************)
(* detectExtFromBuffer: the extension the payload's leading bytes show.    *)
(***************************************************************************)
\* The bytes of the payload the SVG test reads.
SniffWindow == 2048

\* The character code a byte decodes to, lowered: head.toString("utf8")
\* .toLowerCase(). An ASCII byte is its own character; a byte of 128 or more
\* is part of a character outside ASCII (U+FFFD when the bytes are no valid
\* UTF-8), which no ASCII pattern matches before or after lowering, so it is
\* kept as the one code 65533.
DecodeLower(b) ==
  IF b >= 128 THEN 65533
  ELSE IF b >= 65 /\ b <= 90 THEN b + 32
  ELSE b

headStrOf(buffer) ==
  LET head == SubSeq(buffer, 1, Min(Len(buffer), SniffWindow))
  IN  [k \in DOMAIN head |-> DecodeLower(head[k])]

\* buffer.readUInt32BE(0) as its two 16-bit halves <<high, low>> (the whole
\* value is beyond TLC's 32-bit integers), and buffer.readUInt16LE(off).
readUInt32BE0(buffer) ==
  <<buffer[1] * 256 + buffer[2], buffer[3] * 256 + buffer[4]>>
readUInt16LE(buffer, off) == buffer[off + 1] + buffer[off + 2] * 256

PAT_svg    == <<60, 115, 118, 103>>           \* "<svg"
PAT_gif87a == <<103, 105, 102, 56, 55, 97>>   \* "gif87a"
PAT_gif89a == <<103, 105, 102, 56, 57, 97>>   \* "gif89a"
PAT_RIFF   == <<82, 73, 70, 70>>              \* "RIFF"
PAT_WEBP   == <<87, 69, 66, 80>>              \* "WEBP"
PNG_MAGIC  == <<35152, 20039>>                \* 0x89504e47 as 0x8950, 0x4e47

\* buffer.toString("ascii", a, b): the bytes with their high bit cleared.
asciiSlice(buffer, a, b) ==
  LET part == SubSeq(buffer, a + 1, b) IN [k \in DOMAIN part |-> part[k] % 128]

detectExtFromBuffer(buffer) ==
  LET headStr == headStrOf(buffer)
  IN  IF includes(headStr, PAT_svg) THEN EXT_svg
      ELSE IF Len(buffer) >= 8 /\ readUInt32BE0(buffer) = PNG_MAGIC THEN EXT_png
      ELSE IF Len(buffer) >= 2 /\ buffer[1] = 255 /\ buffer[2] = 216 THEN EXT_jpg
      ELSE IF startsWith(headStr, PAT_gif87a) \/ startsWith(headStr, PAT_gif89a)
        THEN EXT_gif
      ELSE IF /\ Len(buffer) >= 12
              /\ asciiSlice(buffer, 0, 4) = PAT_RIFF
              /\ asciiSlice(buffer, 8, 12) = PAT_WEBP
        THEN EXT_webp
      ELSE IF /\ Len(buffer) >= 4
              /\ readUInt16LE(buffer, 0) = 0
              /\ readUInt16LE(buffer, 2) = 256
        THEN EXT_ico
      ELSE <<>>

(***************************************************************************)
(* hasExtension: /\.[a-zA-Z0-9]+$/ matches, a dot followed by one or more  *)
(* letters or digits up to the end of the name.                            *)
(***************************************************************************)
hasExtension(filename) ==
  \E k \in DOMAIN filename :
    /\ filename[k] = "."
    /\ k < Len(filename)
    /\ \A j \in (k + 1)..Len(filename) : IsAlnum(filename[j])

(***************************************************************************)
(* The values a mapping entry's url and out may hold after JSON.parse: a   *)
(* string, a number, or nothing (the key is missing).  An element of the   *)
(* array is an object with the two keys, or null.                          *)
(***************************************************************************)
JStr(s)  == [t |-> "str", s |-> s, n |-> 0]
JNum(n)  == [t |-> "num", s |-> <<>>, n |-> n]
JUndef   == [t |-> "undef", s |-> <<>>, n |-> 0]
JObj(u, o) == [t |-> "obj", url |-> u, out |-> o]
JNull    == [t |-> "null", url |-> JUndef, out |-> JUndef]

\* What !v tests: the empty string, 0 and a missing key are falsy.
Truthy(v) ==
  CASE v.t = "str" -> v.s # <<>>
    [] v.t = "num" -> v.n # 0
    [] OTHER -> FALSE

RECURSIVE DigitsOf(_)
DigitsOf(n) ==
  IF n < 10 THEN <<Digits[n + 1]>>
  ELSE DigitsOf(n \div 10) \o <<Digits[(n % 10) + 1]>>

\* String(v), as a template literal and RegExp.prototype.test coerce: a
\* number (a whole one here) becomes its decimal digits.
ToStr(v) ==
  CASE v.t = "str" -> v.s
    [] v.t = "num" -> IF v.n < 0 THEN <<"-">> \o DigitsOf(0 - v.n)
                      ELSE DigitsOf(v.n)
    [] OTHER -> <<"u", "n", "d", "e", "f", "i", "n", "e", "d">>

(***************************************************************************)
(* The files of the working directory: a function from the paths that      *)
(* exist to their bytes, and the set of directories.                       *)
(***************************************************************************)
\* path.dirname: the text before the last "/", "." for a bare name.
dirname(p) ==
  IF \E k \in DOMAIN p : p[k] = "/"
    THEN LET last == CHOOSE k \in DOMAIN p :
                       p[k] = "/" /\ \A j \in (k + 1)..Len(p) : p[j] # "/"
         IN  IF last = 1 THEN <<"/">> ELSE SubSeq(p, 1, last - 1)
    ELSE <<".">>

\* fs.mkdirSync(dir, {recursive: true}): dir and the directories above it.
DirChain(dir) ==
  {dir} \cup {SubSeq(dir, 1, k - 1) : k \in {j \in 2..Len(dir) : dir[j] = "/"}}

\* ensureDirSync(filePath): the directories after the call.
ensureDirSync(ds, filePath) ==
  LET dir == dirname(filePath)
  IN  IF dir \in ds THEN ds ELSE ds \cup DirChain(dir)

\* A compareBuffersEqual whose length test is turned round: content of the
\* same length never counts as equal.
compareBuffersEqual_Inverted(files, aPath, buf) ==
  IF aPath \notin DOMAIN files THEN FALSE
  ELSE LET existing == files[aPath]
       IN  IF Len(existing) = Len(buf) THEN FALSE ELSE existing = buf

\* A compareBuffersEqual that stops at the lengths.
compareBuffersEqual_LengthOnly(files, aPath, buf) ==
  IF aPath \notin DOMAIN files THEN FALSE
  ELSE Len(files[aPath]) = Len(buf)

\* compareBuffersEqual(aPath, buf): FALSE for a missing file (ENOENT), for
\* another length, for other bytes.
compareBuffersEqual(files, aPath, buf) ==
  IF aPath \notin DOMAIN files THEN FALSE
  ELSE LET existing == files[aPath]
       IN  IF Len(existing) # Len(buf) THEN FALSE ELSE existing = buf

\* fs.writeFile(path, buf): the files after the call.
writeFile(files, path, buf) ==
  [q \in DOMAIN files \cup {path} |-> IF q = path THEN buf ELSE files[q]]

(***************************************************************************)
(* Extension resolution of main: the declared type first, the payload's    *)
(* bytes when the type gives nothing; the name of the file from outBase.   *)
(***************************************************************************)
\* let ext = mapCTypeToExt(ctype || ""); if (!ext) ext = await
\* detectExtFromBuffer(buffer)
ResolveExt_SniffFirst(ctype, buffer) ==
  LET ext == detectExtFromBuffer(buffer)
  IN  IF ext = <<>> THEN mapCTypeToExt(ctype) ELSE ext

ResolveExt(ctype, buffer) ==
  LET ext == mapCTypeToExt(ctype)
  IN  IF ext = <<>> THEN detectExtFromBuffer(buffer) ELSE ext

\* finalOut: outBase itself when it has an extension, outBase + "." + ext
\* with "bin" for an empty ext otherwise.  The value is a JSON value: an
\* outBase that is no string stays what it is in the first branch.
FinalOut_AlwaysAppend(outBase, ext) ==
  JStr(ToStr(outBase) \o <<".">> \o (IF ext = <<>> THEN EXT_bin ELSE ext))

FinalOut(outBase, ext) ==
  IF hasExtension(ToStr(outBase))
    THEN outBase
    ELSE JStr(ToStr(outBase) \o <<".">> \o (IF ext = <<>> THEN EXT_bin ELSE ext))

(***************************************************************************)
(* The command line of git add: every changed path between double quotes   *)
(* with its own double quotes escaped, joined by spaces, and what /bin/sh   *)
(* makes of it.                                                            *)
(***************************************************************************)
\* f.replace(/"/g, '\\"')
RECURSIVE EscapeQuotes(_)
EscapeQuotes(f) ==
  IF f = <<>> THEN <<>>
  ELSE (IF Head(f) = "\"" THEN <<"\\", "\"">> ELSE <<Head(f)>>)
       \o EscapeQuotes(Tail(f))

\* changedFiles.map((f) => '"' + escaped f + '"').join(" ")
RECURSIVE filesArgOf(_)
filesArgOf(files) ==
  IF files = <<>> THEN <<>>
  ELSE <<"\"">> \o EscapeQuotes(Head(files)) \o <<"\"">>
       \o (IF Len(files) > 1 THEN <<" ">> ELSE <<>>)
       \o filesArgOf(Tail(files))

\* The value of a shell variable: env is a set of <<name, value>> pairs, an
\* unset variable expands to nothing.
EnvValue(env, name) ==
  IF \E e \in env : e[1] = name
    THEN (CHOOSE e \in env : e[1] = name)[2]
    ELSE <<>>

\* The length of the variable name that starts at s[k] (0: none does).  A
\* digit is a positional parameter, one character long.
NameLen(s, k) ==
  IF k > Len(s) \/ ~IsNameChar(s[k]) THEN 0
  ELSE IF s[k] \in Range(Digits) THEN 1
  ELSE LET ends == {j \in k..Len(s) : \A m \in k..j : IsNameChar(s[m])}
       IN  (CHOOSE j \in ends : \A m \in ends : m <= j) - k + 1

\* /bin/sh's words of the text s: double quotes group, a backslash keeps the
\* next character (a dollar, a double quote or a backslash inside quotes, any
\* outside; the backquote is not in the model's alphabet), $name
\* is replaced by the variable's value, spaces outside quotes separate.  The
\* result is [ok, argv]; ok is FALSE for an unterminated quote.
RECURSIVE ShellScan(_, _, _, _, _, _, _)
ShellScan(s, k, inq, cur, open, acc, env) ==
  IF k > Len(s)
    THEN [ok |-> ~inq, argv |-> IF open THEN Append(acc, cur) ELSE acc]
  ELSE LET c == s[k] IN
    CASE c = "\"" -> ShellScan(s, k + 1, ~inq, cur, TRUE, acc, env)
      [] c = "\\" /\ k < Len(s)
           /\ (~inq \/ s[k + 1] \in {"$", "\"", "\\"}) ->
           ShellScan(s, k + 2, inq, Append(cur, s[k + 1]), TRUE, acc, env)
      [] c = "$" /\ NameLen(s, k + 1) > 0 ->
           LET n == NameLen(s, k + 1)
           IN  ShellScan(s, k + 1 + n, inq,
                         cur \o EnvValue(env, SubSeq(s, k + 1, k + n)),
                         open \/ inq, acc, env)
      [] c = " " /\ ~inq ->
           ShellScan(s, k + 1, inq, <<>>, FALSE,
                     IF open THEN Append(acc, cur) ELSE acc, env)
      [] OTHER -> ShellScan(s, k + 1, inq, Append(cur, c), TRUE, acc, env)

ShellWords(s, env) == ShellScan(s, 1, FALSE, <<>>, FALSE, <<>>, env)


\* The pathspecs that git add receives from the shell.
gitAddArgv(files, env) == ShellWords(filesArgOf(files), env)

(***************************************************************************)
(* readMappingOrCreateSample's sample mapping.                             *)
(***************************************************************************)
SAMPLE_URL_1 ==
  <<"h", "t", "t", "p", "s", ":", "/", "/", "v", "i", "s", "i", "t", "o",
   "r", "-", "b", "a", "d", "g", "e", ".", "l", "a", "o", "b", "i", ".",
   "i", "c", "u", "/", "b", "a", "d", "g", "e", "?", "p", "a", "g", "e",
   "_", "i", "d", "=", "a", "d", "i", "t", "y", "a", "-", "x", "q", "&",
   "l", "e", "f", "t", "_", "c", "o", "l", "o", "r", "=", "m", "a", "r",
   "o", "o", "n", "&", "r", "i", "g", "h", "t", "_", "c", "o", "l", "o",
   "r", "=", "d", "a", "r", "k", "g", "r", "e", "e", "n">>
SAMPLE_URL_2 ==
  <<"h", "t", "t", "p", "s", ":", "/", "/", "g", "i", "t", "h", "u", "b",
   "-", "r", "e", "a", "d", "m", "e", "-", "s", "t", "r", "e", "a", "k",
   "-", "s", "t", "a", "t", "s", ".", "h", "e", "r", "o", "k", "u", "a",
   "p", "p", ".", "c", "o", "m", "/", "?", "u", "s", "e", "r", "=", "a",
   "d", "i", "t", "y", "a", "-", "x", "q", "&", "t", "h", "e", "m", "e",
   "=", "h", "i", "g", "h", "c", "o", "n", "t", "r", "a", "s", "t", "&",
   "h", "i", "d", "e", "_", "b", "o", "r", "d", "e", "r", "=", "t", "r",
   "u", "e">>
SAMPLE_URL_3 ==
  <<"h", "t", "t", "p", "s", ":", "/", "/", "g", "i", "t", "h", "u", "b",
   "-", "r", "e", "a", "d", "m", "e", "-", "s", "t", "a", "t", "s", ".",
   "v", "e", "r", "c", "e", "l", ".", "a", "p", "p", "/", "a", "p", "i",
   "?", "u", "s", "e", "r", "n", "a", "m", "e", "=", "a", "d", "i", "t",
   "y", "a", "-", "x", "q", "&", "s", "h", "o", "w", "_", "i", "c", "o",
   "n", "s", "=", "t", "r", "u", "e", "&", "t", "h", "e", "m", "e", "=",
   "h", "i", "g", "h", "c", "o", "n", "t", "r", "a", "s", "t", "&", "h",
   "i", "d", "e", "_", "b", "o", "r", "d", "e", "r", "=", "t", "r", "u",
   "e", "&", "r", "a", "n", "k", "_", "i", "c", "o", "n", "=", "g", "i",
   "t", "h", "u", "b">>
SAMPLE_OUT_1 ==
  <<"a", "s", "s", "e", "t", "s", "/", "v", "i", "s", "i", "t", "o", "r",
   "-", "b", "a", "d", "g", "e">>
SAMPLE_OUT_2 ==
  <<"a", "s", "s", "e", "t", "s", "/", "s", "t", "r", "e", "a", "k", "-",
   "s", "t", "a", "t", "s">>
SAMPLE_OUT_3 ==
  <<"a", "s", "s", "e", "t", "s", "/", "g", "i", "t", "h", "u", "b", "-",
   "s", "t", "a", "t", "s">>

sample ==
  << JObj(JStr(SAMPLE_URL_1), JStr(SAMPLE_OUT_1)),
     JObj(JStr(SAMPLE_URL_2), JStr(SAMPLE_OUT_2)),
     JObj(JStr(SAMPLE_URL_3), JStr(SAMPLE_OUT_3)) >>

(***************************************************************************)
(* The state.                                                              *)
(***************************************************************************)
VARIABLES
  mfile,         \* assets-to-fetch.json: [kind, arr]; kind is "missing",
                 \* "unreadable", "badjson", "nonarray" or "array"
  fs,            \* the files of the working directory: path -> bytes
  dirs,          \* its directories
  pc,            \* where main is: "start", "loop", "awaitBody", "revparse",
                 \* "cfgName", "cfgEmail", "add", "commit", "push", "exited"
  mapping,       \* main's mapping
  i,             \* main's loop index
  changedFiles,  \* main's changedFiles
  exitCode,      \* the process's exit code, -1 while it runs
  logs,          \* the messages logged, by kind
  gitLog,        \* the git commands run: [cmd, args, ok]
  got,           \* per entry visited, what its retrieval gave
  writes,        \* the paths fs.writeFile wrote in this run, in order
  compared,      \* the paths compareBuffersEqual read in this run, in order
  run,           \* "first" or "second": which of two successive runs
  prevGot,       \* got of the run before
  prevMapping,   \* mapping of the run before
  fs0,           \* the files when this run started
  mfile0         \* assets-to-fetch.json when this run started

vars == <<mfile, fs, dirs, pc, mapping, i, changedFiles, exitCode, logs,
          gitLog, got, writes, compared, run, prevGot, prevMapping, fs0,
          mfile0>>

(***************************************************************************)
(* What the remote gives for a URL: bytes with a declared type, or one of  *)
(* the failures of fetchWithTimeout.                                       *)
(***************************************************************************)
\* path and wrote are filled in by the loop when the answer is recorded in
\* got: the path compared, and whether it was written.
Ok(buffer, ctype) ==
  [kind |-> "ok", buffer |-> buffer, ctype |-> ctype,
   path |-> <<>>, wrote |-> FALSE]
Fail(kind) ==
  [kind |-> kind, buffer |-> <<>>, ctype |-> <<>>,
   path |-> <<>>, wrote |-> FALSE]

\* The failures that reject: fetch itself (network), the abort after
\* FETCH_TIMEOUT_MS (timeout), a status that is not ok (http).
FailKinds == {"network", "timeout", "http"}

\* fetchWithTimeout(url, timeoutMs) for the remote's answer r: a url that is
\* no string is no URL, and fetch rejects it before any request.  The
\* answer "stall" is a body that never ends: the timer was cleared when the
\* headers came, so nothing ends the await.
fetchWithTimeout(url, r) ==
  IF url.t # "str" THEN Fail("badurl") ELSE r

(***************************************************************************)
(* The end of the process.                                                 *)
(***************************************************************************)
Log(msgs) == logs' = logs \o msgs

Exit(code) == pc' = "exited" /\ exitCode' = code

(***************************************************************************)
(* main, line 206-212: readMappingOrCreateSample and the empty mapping.    *)
(***************************************************************************)
\* A readMappingOrCreateSample without its Array.isArray test: what is no
\* array reaches main, which takes it for an empty mapping and returns.
readMappingOrCreateSample_NoArrayTest ==
  /\ pc = "start"
  /\ CASE mfile.kind = "array" ->
            /\ mapping' = mfile.arr
            /\ mfile' = mfile
            /\ IF mfile.arr = <<>>
                 THEN Log(<<"start", "no-entries">>) /\ Exit(0)
                 ELSE Log(<<"start">>) /\ pc' = "loop" /\ exitCode' = exitCode
       [] mfile.kind = "missing" ->
            /\ mfile' = [kind |-> "array", arr |-> sample]
            /\ mapping' = mapping
            /\ Log(<<"start", "created-sample">>)
            /\ Exit(0)
       [] mfile.kind = "nonarray" ->
            /\ mfile' = mfile
            /\ mapping' = mapping
            /\ Log(<<"start", "no-entries">>)
            /\ Exit(0)
       [] OTHER ->
            /\ mfile' = mfile
            /\ mapping' = mapping
            /\ Log(<<"start", "read-error", "fatal">>)
            /\ Exit(1)
  /\ UNCHANGED <<fs, dirs, i, changedFiles, gitLog, got, writes, compared,
                 run, prevGot, prevMapping, fs0, mfile0>>

readMappingOrCreateSample ==
  /\ pc = "start"
  /\ CASE mfile.kind = "array" ->
            /\ mapping' = mfile.arr
            /\ mfile' = mfile
            /\ IF mfile.arr = <<>>
                 THEN Log(<<"start", "no-entries">>) /\ Exit(0)
                 ELSE Log(<<"start">>) /\ pc' = "loop" /\ exitCode' = exitCode
       [] mfile.kind = "missing" ->
            /\ mfile' = [kind |-> "array", arr |-> sample]
            /\ mapping' = mapping
            /\ Log(<<"start", "created-sample">>)
            /\ Exit(0)
       [] OTHER ->
            /\ mfile' = mfile
            /\ mapping' = mapping
            /\ Log(<<"start", "read-error", "fatal">>)
            /\ Exit(1)
  /\ UNCHANGED <<fs, dirs, i, changedFiles, gitLog, got, writes, compared,
                 run, prevGot, prevMapping, fs0, mfile0>>

(***************************************************************************)
(* main, line 216-260: one turn of the loop over the mapping.              *)
(***************************************************************************)
\* if (!item || !item.url || !item.out)
IsInvalid(item) ==
  item.t = "null" \/ ~Truthy(item.url) \/ ~Truthy(item.out)

\* log("Skipping invalid mapping ..."); continue
EntrySkipped ==
  /\ Log(<<"skip-invalid">>)
  /\ got' = Append(got, Fail("skipped"))
  /\ i' = i + 1
  /\ UNCHANGED <<fs, dirs, pc, changedFiles, exitCode, writes, compared>>

\* A catch that lets the error out of main: main().catch exits with 1.
EntryFailed_Abort(res) ==
  /\ Log(<<"processing", "fatal">>)
  /\ got' = Append(got, res)
  /\ Exit(1)
  /\ UNCHANGED <<fs, dirs, i, changedFiles, writes, compared>>

\* A catch that fetches the same entry again: the index stays.
EntryFailed_Retry(res) ==
  /\ Log(<<"processing", "warn-fetch">>)
  /\ got' = Append(got, res)
  /\ UNCHANGED <<fs, dirs, pc, i, changedFiles, exitCode, writes, compared>>

\* catch (err) { log("WARNING: failed to fetch ..."); continue; }
EntryFailed(res) ==
  /\ Log(<<"processing", "warn-fetch">>)
  /\ got' = Append(got, res)
  /\ i' = i + 1
  /\ UNCHANGED <<fs, dirs, pc, changedFiles, exitCode, writes, compared>>

\* await res.arrayBuffer() on a body that never ends: main waits for good.
EntryStalled(res) ==
  /\ Log(<<"processing">>)
  /\ got' = Append(got, res)
  /\ pc' = "awaitBody"
  /\ UNCHANGED <<fs, dirs, i, changedFiles, exitCode, writes, compared>>

\* An accumulator that keeps only the last path pushed: an append lost.
recordChanged_Overwrite(acc, finalOut) == <<finalOut>>

\* changedFiles.push(finalOut)
recordChanged(acc, finalOut) == Append(acc, finalOut)

\* Line 230-255 for a payload that arrived: resolve the name, make its
\* directory, compare, write and record when the bytes differ.  A finalOut
\* that is no string makes path.dirname throw, which the catch takes.
EntryFetched(item, res) ==
  LET ext == ResolveExt(res.ctype, res.buffer)
      finalOut == FinalOut(item.out, ext)
  IN  IF finalOut.t # "str"
        THEN EntryFailed(res)
        ELSE LET path == finalOut.s
                 equal == compareBuffersEqual(fs, path, res.buffer)
             IN  /\ dirs' = ensureDirSync(dirs, path)
                 /\ compared' = Append(compared, path)
                 /\ got' = Append(got, [res EXCEPT !.path = path,
                                                   !.wrote = ~equal])
                 /\ i' = i + 1
                 /\ IF equal
                      THEN /\ Log(<<"processing", "no-change">>)
                           /\ UNCHANGED <<fs, writes, changedFiles>>
                      ELSE /\ fs' = writeFile(fs, path, res.buffer)
                           /\ writes' = Append(writes, path)
                           /\ changedFiles' = recordChanged(changedFiles, path)
                           /\ Log(<<"processing", "saved">>)
                 /\ UNCHANGED <<pc, exitCode>>

ProcessEntry(Resp) ==
  /\ pc = "loop"
  /\ i < Len(mapping)
  /\ LET item == mapping[i + 1]
     IN  IF IsInvalid(item)
           THEN EntrySkipped
           ELSE \E r \in Resp :
                  LET res == fetchWithTimeout(item.url, r)
                  IN  CASE res.kind = "ok" -> EntryFetched(item, res)
                        [] res.kind = "stall" -> EntryStalled(res)
                        [] OTHER -> EntryFailed(res)
  /\ UNCHANGED <<mfile, mapping, gitLog, run, prevGot, prevMapping, fs0,
                 mfile0>>

(***************************************************************************)
(* main, line 262-267: after the loop.                                     *)
(***************************************************************************)
LoopDone ==
  /\ pc = "loop"
  /\ i = Len(mapping)
  /\ IF changedFiles = <<>>
       THEN Log(<<"nothing-changed">>) /\ Exit(0)
       ELSE Log(<<"files-changed">>) /\ pc' = "revparse" /\ exitCode' = exitCode
  /\ UNCHANGED <<mfile, fs, dirs, mapping, i, changedFiles, gitLog, got,
                 writes, compared, run, prevGot, prevMapping, fs0, mfile0>>

(***************************************************************************)
(* main, line 269-277, and gitCommitAndPush: one action per execSync.      *)
(***************************************************************************)
Git(cmd, args, ok) == [cmd |-> cmd, args |-> args, ok |-> ok]

GitFrame ==
  UNCHANGED <<mfile, fs, dirs, mapping, i, changedFiles, got, writes,
              compared, run, prevGot, prevMapping, fs0, mfile0>>

\* An error out of gitCommitAndPush that main does not catch.
GitThrow_Fatal ==
  /\ Log(<<"git-failed", "fatal">>)
  /\ Exit(1)

\* gitCommitAndPush's catch logs and rethrows, main's catch logs and ends.
GitThrow ==
  /\ Log(<<"git-failed", "git-skip">>)
  /\ Exit(0)

\* A failed repository check that is not taken as one.
RevParseFailed_Ignored ==
  /\ logs' = logs
  /\ pc' = "cfgName"
  /\ exitCode' = exitCode

\* main's catch when git rev-parse fails: no repository, or no git.
RevParseFailed ==
  /\ Log(<<"git-skip">>)
  /\ Exit(0)

\* execSync("git rev-parse --is-inside-work-tree")
GitRevParse(Repo) ==
  /\ pc = "revparse"
  /\ \E ok \in Repo :
       /\ gitLog' = Append(gitLog, Git("rev-parse", <<>>, ok))
       /\ IF ok
            THEN pc' = "cfgName" /\ UNCHANGED <<logs, exitCode>>
            ELSE RevParseFailed
  /\ GitFrame

\* git config <key>, and git config <key> <bot identity> when it is unset.
GitConfig(key, isSet, ok, next) ==
  /\ gitLog' = gitLog \o <<Git("config-get", <<key>>, isSet)>>
                      \o (IF isSet THEN <<>>
                          ELSE <<Git("config-set", <<key>>, ok)>>)
  /\ IF isSet \/ ok
       THEN pc' = next /\ UNCHANGED <<logs, exitCode>>
       ELSE GitThrow

GitConfigName(IdSet) ==
  /\ pc = "cfgName"
  /\ \E isSet \in IdSet :
       \E ok \in (IF isSet THEN {TRUE} ELSE BOOLEAN) :
         GitConfig("user.name", isSet, ok, "cfgEmail")
  /\ GitFrame

GitConfigEmail(IdSet) ==
  /\ pc = "cfgEmail"
  /\ \E isSet \in IdSet :
       \E ok \in (IF isSet THEN {TRUE} ELSE BOOLEAN) :
         GitConfig("user.email", isSet, ok, "add")
  /\ GitFrame

\* execSync of git add with filesArg: the shell's words are the pathspecs;
\* the command fails when the shell cannot read the line, when a pathspec
\* names no file, or for a reason of git's own (working).
GitAdd(Envs) ==
  /\ pc = "add"
  /\ \E env \in Envs, working \in BOOLEAN :
       LET a == gitAddArgv(changedFiles, env)
           ok == /\ a.ok
                 /\ \A k \in DOMAIN a.argv : a.argv[k] \in DOMAIN fs
                 /\ working
       IN  /\ gitLog' = Append(gitLog, Git("add", a.argv, ok))
           /\ IF ok
                THEN pc' = "commit" /\ UNCHANGED <<logs, exitCode>>
                ELSE GitThrow
  /\ GitFrame

\* execSync of git commit: a failure (nothing to commit) ends the function.
GitCommit ==
  /\ pc = "commit"
  /\ \E ok \in BOOLEAN :
       /\ gitLog' = Append(gitLog, Git("commit", <<>>, ok))
       /\ IF ok
            THEN pc' = "push" /\ UNCHANGED <<logs, exitCode>>
            ELSE Log(<<"no-commit">>) /\ Exit(0)
  /\ GitFrame

\* execSync("git push")
GitPush ==
  /\ pc = "push"
  /\ \E ok \in BOOLEAN :
       /\ gitLog' = Append(gitLog, Git("push", <<>>, ok))
       /\ IF ok
            THEN Log(<<"pushed">>) /\ Exit(0)
            ELSE GitThrow
  /\ GitFrame

(***************************************************************************)
(* The next scheduled run: the process starts again on the files the run   *)
(* before left.                                                            *)
(***************************************************************************)
Rerun ==
  /\ pc = "exited"
  /\ run = "first"
  /\ run' = "second"
  /\ pc' = "start"
  /\ exitCode' = -1
  /\ mapping' = <<>>
  /\ i' = 0
  /\ changedFiles' = <<>>
  /\ logs' = <<>>
  /\ gitLog' = <<>>
  /\ got' = <<>>
  /\ writes' = <<>>
  /\ compared' = <<>>
  /\ prevGot' = got
  /\ prevMapping' = mapping
  /\ fs0' = fs
  /\ mfile0' = mfile
  /\ UNCHANGED <<mfile, fs, dirs>>

(***************************************************************************)
(* The initial states and the specifications.                              *)
(***************************************************************************)
SeqsUpTo(S, n) == UNION {[1..k -> S] : k \in 0..n}

DirsOf(files) == {<<".">>} \cup UNION {DirChain(dirname(q)) : q \in DOMAIN files}

NoFiles == [q \in {} |-> <<>>]

InitWith(Mappings, Files) ==
  /\ mfile \in {[kind |-> k, arr |-> <<>>] :
                  k \in {"missing", "unreadable", "badjson", "nonarray"}}
               \cup {[kind |-> "array", arr |-> m] : m \in Mappings}
  /\ fs \in Files
  /\ dirs = DirsOf(fs)
  /\ pc = "start"
  /\ mapping = <<>>
  /\ i = 0
  /\ changedFiles = <<>>
  /\ exitCode = -1
  /\ logs = <<>>
  /\ gitLog = <<>>
  /\ got = <<>>
  /\ writes = <<>>
  /\ compared = <<>>
  /\ run = "first"
  /\ prevGot = <<>>
  /\ prevMapping = <<>>
  /\ fs0 = fs
  /\ mfile0 = mfile

\* One run of main under the remote answers Resp, the repository states
\* Repo, the identity states IdSet and the shell environments Envs.
RunWith(Resp, Repo, IdSet, Envs) ==
  \/ readMappingOrCreateSample
  \/ ProcessEntry(Resp)
  \/ LoopDone
  \/ GitRevParse(Repo)
  \/ GitConfigName(IdSet)
  \/ GitConfigEmail(IdSet)
  \/ GitAdd(Envs)
  \/ GitCommit
  \/ GitPush

(***************************************************************************)
(* The inputs of the checked behaviours.                                   *)
(***************************************************************************)
URL_1 == <<"h", "t", "t", "p", "s", ":", "/", "/", "h", "/", "1">>
URL_2 == <<"h", "t", "t", "p", "s", ":", "/", "/", "h", "/", "2">>

\* Payloads.
PNG_A  == <<137, 80, 78, 71, 13, 10, 26, 10>>
PNG_B  == <<137, 80, 78, 71, 13, 10, 26, 10, 0>>
PNG_C  == <<137, 80, 78, 71, 13, 10, 26, 11>>
SVG_A  == <<60, 115, 118, 103, 62>>                        \* <svg>
SVG_UP == <<60, 83, 86, 71, 32>>                           \* <SVG
SVG_IN == <<120, 60, 115, 118, 103>>                       \* x<svg
PNG_SHORT == <<137, 80, 78, 71>>
PNG_SVG == <<137, 80, 78, 71, 13, 10, 26, 10, 60, 115, 118, 103>>
JPG_A  == <<255, 216, 255>>
GIF_A  == <<71, 73, 70, 56, 55, 97>>                       \* GIF87a
GIF_B  == <<103, 105, 102, 56, 57, 97>>                    \* gif89a
WEBP_A == <<82, 73, 70, 70, 0, 0, 0, 0, 87, 69, 66, 80>>   \* RIFF....WEBP
WAVE_A == <<82, 73, 70, 70, 0, 0, 0, 0, 87, 65, 86, 69>>   \* RIFF....WAVE
ICO_A  == <<0, 0, 1, 0>>
ICO_B  == <<0, 0, 0, 1>>
TEXT_A == <<104, 105>>                                     \* hi
EMPTY  == <<>>

\* Declared types beside the table's own.
CT_none == <<>>
CT_PNG_UP == <<"I", "M", "A", "G", "E", "/", "P", "N", "G">>
CT_svg_charset ==
  <<"i", "m", "a", "g", "e", "/", "s", "v", "g", "+", "x", "m", "l", ";", " ",
    "c", "h", "a", "r", "s", "e", "t", "=", "u", "t", "f", "-", "8">>
CT_jpeg_param ==
  <<"i", "m", "a", "g", "e", "/", "j", "p", "e", "g", " ", ";", "q", "=", "1">>
CT_html == <<"t", "e", "x", "t", "/", "h", "t", "m", "l">>
CT_pngx == <<"i", "m", "a", "g", "e", "/", "p", "n", "g", "x">>

\* Destinations.
OUT_a     == <<"a">>
OUT_a_png == <<"a", ".", "p", "n", "g">>
OUT_b     == <<"b">>
OUT_d_a   == <<"d", "/", "a">>
OUT_dx_a  == <<"d", ".", "x", "/", "a">>
OUT_a_dot == <<"a", ".">>
OUT_v1_2  == <<"v", "1", ".", "2">>
OUT_dot_x == <<".", "x">>
OUT_a_b_c == <<"a", ".", "b", "-", "c">>
OUT_var   == <<"$", "a">>
OUT_quote == <<"q", "\"", "r">>

\* Mapping entries of the main specification: three the loop fetches for,
\* one with a url that is no URL, three the loop must skip.
ITEM_d_a     == JObj(JStr(URL_1), JStr(OUT_d_a))
ITEM_var     == JObj(JStr(URL_2), JStr(OUT_var))
ITEM_num_out == JObj(JStr(URL_2), JNum(7))
ITEM_num_url == JObj(JNum(7), JStr(OUT_b))
ITEM_null    == JNull
ITEM_no_url  == JObj(JUndef, JStr(OUT_b))
ITEM_empty_out == JObj(JStr(URL_1), JStr(<<>>))

Items == {ITEM_d_a, ITEM_var, ITEM_num_out, ITEM_num_url, ITEM_null,
          ITEM_no_url, ITEM_empty_out}

Responses ==
  {Fail(k) : k \in FailKinds} \cup {Fail("stall")}
  \cup {Ok(PNG_A, CT_png), Ok(SVG_A, CT_none)}

\* The shell's environment: a unset, or a set to the text d/a.
Envs == { {}, {<< <<"a">>, OUT_d_a >>} }

Files == {NoFiles}

Init == InitWith(SeqsUpTo(Items, MaxEntries), Files)

Next == RunWith(Responses, BOOLEAN, BOOLEAN, Envs)

Spec == Init /\ [][Next]_vars

(***************************************************************************)
(* Extension resolution on its own: one entry, every destination shape,    *)
(* every declared type against every payload.                              *)
(***************************************************************************)
ResolveOuts == {OUT_a, OUT_a_png, OUT_d_a, OUT_dx_a, OUT_a_dot, OUT_v1_2,
                OUT_dot_x, OUT_a_b_c, OUT_var, OUT_quote}

ResolveTypes == {CT_none, CT_svg, CT_png, CT_jpeg, CT_jpg, CT_webp, CT_gif,
                 CT_xicon, CT_msicon, CT_text, CT_json, CT_PNG_UP,
                 CT_svg_charset, CT_jpeg_param, CT_html, CT_pngx}

ResolvePayloads == {PNG_A, PNG_SHORT, PNG_SVG, SVG_A, SVG_UP, SVG_IN, JPG_A,
                    GIF_A, GIF_B, WEBP_A, WAVE_A, ICO_A, ICO_B, TEXT_A, EMPTY}

ResolveResponses == {Ok(b, c) : b \in ResolvePayloads, c \in ResolveTypes}

ResolveFiles == {NoFiles, [q \in {OUT_a_png} |-> PNG_A]}

InitResolve ==
  InitWith({<<JObj(JStr(URL_1), JStr(o))>> : o \in ResolveOuts}, ResolveFiles)

NextResolve == RunWith(ResolveResponses, BOOLEAN, {TRUE}, {{}})

SpecResolve == InitResolve /\ [][NextResolve]_vars

(***************************************************************************)
(* Two runs in succession.                                                 *)
(***************************************************************************)
ITEM_a     == JObj(JStr(URL_1), JStr(OUT_a))
ITEM_a_png == JObj(JStr(URL_2), JStr(OUT_a_png))

TwiceItems == {ITEM_a, ITEM_a_png}

TwiceResponses ==
  {Fail("network"), Ok(PNG_A, CT_png), Ok(PNG_C, CT_png), Ok(PNG_A, CT_svg)}

InitTwice == InitWith(SeqsUpTo(TwiceItems, MaxEntries), Files)

NextTwice == RunWith(TwiceResponses, BOOLEAN, {TRUE}, {{}}) \/ Rerun

SpecTwice == InitTwice /\ [][NextTwice]_vars

(***************************************************************************)
(* Properties of two runs in succession (SpecTwice).                       *)
(***************************************************************************)
\* The remote gave the same thing: the same failure, or the same bytes with
\* the same declared type.
SameAnswer(a, b) ==
  a.kind = b.kind /\ a.buffer = b.buffer /\ a.ctype = b.ctype

\* The second run has ended normally after a first run over the same mapping.
SecondRunOver ==
  /\ run = "second"
  /\ pc = "exited"
  /\ exitCode = 0
  /\ mapping # <<>>
  /\ prevMapping = mapping
  /\ Len(got) = Len(mapping)
  /\ Len(prevGot) = Len(mapping)

\* Within the run g, entries with the same url were given the same answer.
PerUrl(g) ==
  \A j, k \in DOMAIN g :
    mapping[j].url = mapping[k].url => SameAnswer(g[j], g[k])

\* Every entry was fetched, with the same bytes and declared type, in both
\* runs.
UnchangedRemote ==
  \A k \in DOMAIN mapping :
    got[k].kind = "ok" /\ SameAnswer(got[k], prevGot[k])

\* Entries that resolve to the same destination were given the same bytes.
NoRivals ==
  \A j, k \in DOMAIN mapping :
    (got[j].kind = "ok" /\ got[k].kind = "ok" /\ got[j].path = got[k].path)
      => got[j].buffer = got[k].buffer

\* C1 as stated: for every mapping list, a second run on an unchanged remote
\* writes no file and reports no changed destination.
C1_IdempotentForEveryMapping ==
  (SecondRunOver /\ UnchangedRemote /\ PerUrl(got))
    => (writes = <<>> /\ changedFiles = <<>>)

\* C1 as amended: a second run on an unchanged remote writes no file and
\* reports no changed destination, provided entries that resolve to the same
\* destination are given the same bytes.
C1_IdempotentWithoutRivals ==
  (SecondRunOver /\ UnchangedRemote /\ PerUrl(got) /\ NoRivals)
    => (writes = <<>> /\ changedFiles = <<>> /\ fs = fs0 /\ gitLog = <<>>)

\* A second run over two entries, both written by the first run, that wrote
\* nothing.
C1_Witness ==
  /\ SecondRunOver /\ UnchangedRemote /\ PerUrl(got) /\ NoRivals
  /\ Len(mapping) >= 2
  /\ \A k \in DOMAIN mapping : prevGot[k].wrote
  /\ writes = <<>>

\* Both runs fetched every entry.
BothFetched ==
  \A k \in DOMAIN mapping : got[k].kind = "ok" /\ prevGot[k].kind = "ok"

\* The entries whose remote bytes differ between the two runs.
BytesChanged == {k \in DOMAIN mapping : got[k].buffer # prevGot[k].buffer}

\* The files outside the set of paths P are those the run started with.
UntouchedOutside(P) ==
  \A q \in (DOMAIN fs \cup DOMAIN fs0) \ P :
    q \in DOMAIN fs /\ q \in DOMAIN fs0 /\ fs[q] = fs0[q]

\* The second run reported changed exactly the destinations of the entries
\* whose bytes changed, and wrote nowhere else.
ExactlyTheChanged ==
  LET D == {got[k].path : k \in BytesChanged}
  IN  /\ Range(changedFiles) = D
      /\ Range(writes) = D
      /\ UntouchedOutside(D)

\* The declared types are those of the run before.
SameTypes == \A k \in DOMAIN mapping : got[k].ctype = prevGot[k].ctype

\* C2 as stated: when remote content changes between two runs, the second
\* run reports changed exactly the destinations whose content changed and
\* leaves every other file alone.  (Read in the claim's favour: every entry
\* is fetched in both runs and only bytes change, never a declared type.)
C2_ExactlyTheChangedAlways ==
  (SecondRunOver /\ BothFetched /\ SameTypes /\ PerUrl(got) /\ PerUrl(prevGot))
    => ExactlyTheChanged

\* Every entry resolves to the destination it had in the run before, and no
\* two entries resolve to the same one.
StableDistinctDestinations ==
  /\ \A k \in DOMAIN mapping : got[k].path = prevGot[k].path
  /\ \A j, k \in DOMAIN mapping : j # k => got[j].path # got[k].path

\* C2 as amended: the same, for runs in which every entry keeps its
\* destination and no two entries share one.
C2_ExactlyTheChangedDistinct ==
  (SecondRunOver /\ BothFetched /\ StableDistinctDestinations)
    => ExactlyTheChanged

\* A second run in which one entry's bytes changed and another's did not.
C2_Witness ==
  /\ SecondRunOver /\ BothFetched /\ StableDistinctDestinations
  /\ BytesChanged # {}
  /\ BytesChanged # DOMAIN mapping
  /\ Len(changedFiles) = 1

(***************************************************************************)
(* Properties of extension resolution (SpecResolve).                       *)
(***************************************************************************)
\* The name ends in a dot and one or more letters or digits.
ExtensionLike(name) ==
  \E n \in 1..(Len(name) - 1) :
    /\ name[Len(name) - n] = "."
    /\ \A j \in (Len(name) - n + 1)..Len(name) : IsAlnum(name[j])

\* Entry k was fetched and its out is text.
FetchedText(k) == got[k].kind = "ok" /\ mapping[k].out.t = "str"

\* After entry k, the last one visited, the file at its path holds its bytes.
HoldsPayload(k) ==
  k = Len(got) => (got[k].path \in DOMAIN fs /\ fs[got[k].path] = got[k].buffer)

\* C3: an out that already ends in an extension is the path compared and
\* written, whatever the declared type and the bytes.
C3_ExplicitExtensionKept ==
  \A k \in DOMAIN got :
    (FetchedText(k) /\ ExtensionLike(mapping[k].out.s))
      => /\ got[k].path = mapping[k].out.s
         /\ mapping[k].out.s \in Range(compared)
         /\ got[k].wrote => mapping[k].out.s \in Range(writes)
         /\ HoldsPayload(k)
         /\ Len(mapping) = 1 => UntouchedOutside({mapping[k].out.s})

\* JPEG bytes declared image/jpeg, fetched for a.png, are written to a.png.
C3_Witness ==
  /\ Len(got) = 1
  /\ mapping[1].out.s = OUT_a_png
  /\ got[1].buffer = JPG_A /\ got[1].ctype = CT_jpeg
  /\ got[1].wrote
  /\ fs[OUT_a_png] = JPG_A
  /\ writes = <<OUT_a_png>>

\* The declared types of the fixed table, with their extensions.
TypeTable ==
  { <<CT_svg, EXT_svg>>, <<CT_png, EXT_png>>, <<CT_jpeg, EXT_jpg>>,
    <<CT_jpg, EXT_jpg>>, <<CT_webp, EXT_webp>>, <<CT_gif, EXT_gif>>,
    <<CT_xicon, EXT_ico>>, <<CT_msicon, EXT_ico>>, <<CT_text, EXT_txt>>,
    <<CT_json, EXT_json>> }

\* The table's extension for a declared type, read without its parameters,
\* surrounding blanks and letter case; <<>> when the table has none.
TableExt(ctype) ==
  LET name == toLowerCase(trim(SplitFirst(ctype, ";")))
  IN  IF \E e \in TypeTable : e[1] = name
        THEN (CHOOSE e \in TypeTable : e[1] = name)[2]
        ELSE <<>>

NothingFetchedOrWritten ==
  got = <<>> /\ writes = <<>> /\ fs = fs0 /\ gitLog = <<>>

\* C5 as stated: a mapping file that is missing, is no JSON or is no array
\* ends the run with a non-zero exit code, nothing fetched, no file written.
C5_SetupFailureFatal ==
  (pc = "exited" /\ mfile0.kind \in {"missing", "badjson", "nonarray"})
    => (exitCode # 0 /\ NothingFetchedOrWritten /\ mfile = mfile0)

\* C5 as amended: a mapping file that is no JSON or no array ends the run
\* with exit code 1, nothing fetched, no file written; a missing mapping file
\* is replaced by the sample and the run ends with exit code 0, nothing
\* fetched.
C5_SetupFailureFatalOrSample ==
  /\ (pc = "exited" /\ mfile0.kind \in {"badjson", "nonarray"})
       => (exitCode = 1 /\ NothingFetchedOrWritten /\ mfile = mfile0)
  /\ (pc = "exited" /\ mfile0.kind = "missing")
       => /\ exitCode = 0
          /\ NothingFetchedOrWritten
          /\ mfile = [kind |-> "array", arr |-> sample]

\* A run on a mapping file that holds no array has ended with exit code 1.
C5_Witness ==
  pc = "exited" /\ mfile0.kind = "nonarray" /\ exitCode = 1 /\ got = <<>>

\* C6: a failed retrieval (network error, timeout, HTTP status) never ends
\* the run: the loop goes on to the next entry, and a run that ends has
\* visited every entry and exits with 0.
C6_FetchFailureSkipped ==
  \A k \in DOMAIN got :
    got[k].kind \in FailKinds
      => /\ exitCode # 1
         /\ ~got[k].wrote
         /\ i >= k
         /\ pc # "awaitBody" => i = Len(got)
         /\ pc = "exited" => (exitCode = 0 /\ Len(got) = Len(mapping))

\* A run whose first entry failed with an HTTP status and whose second was
\* written has ended with exit code 0.
C6_Witness ==
  /\ pc = "exited" /\ exitCode = 0
  /\ Len(got) = 2
  /\ got[1].kind = "http"
  /\ got[2].kind = "ok" /\ got[2].wrote

\* An entry that breaks the mapping invariant: null, or a url or an out that
\* is missing or is no non-empty string.
BreaksInvariant(item) ==
  \/ item.t = "null"
  \/ ~(item.url.t = "str" /\ item.url.s # <<>>)
  \/ ~(item.out.t = "str" /\ item.out.s # <<>>)

\* C7: for an entry that breaks the mapping invariant no request is sent and
\* no file is written, and the entries after it are still visited.
C7_InvalidEntrySkipped ==
  \A k \in DOMAIN got :
    BreaksInvariant(mapping[k])
      => /\ got[k].kind \in {"skipped", "badurl"}
         /\ ~got[k].wrote
         /\ pc = "exited" => Len(got) = Len(mapping)

\* The git commands of the run that are cmd.
GitRuns(cmd) == {k \in DOMAIN gitLog : gitLog[k].cmd = cmd}

\* C8: with a changed destination, the paths staged are exactly the changed
\* destinations and at most one commit is made; without one, no git command
\* runs.
C8_StagesExactlyTheChanged ==
  /\ changedFiles = <<>> => gitLog = <<>>
  /\ \A k \in GitRuns("add") :
       gitLog[k].ok => Range(gitLog[k].args) = Range(changedFiles)
  /\ Cardinality({k \in GitRuns("commit") : gitLog[k].ok}) <= 1

\* A command of the versioning step (identity, stage, commit, push) failed.
VersioningFailed ==
  \E k \in DOMAIN gitLog :
    gitLog[k].cmd \in {"config-set", "add", "commit", "push"} /\ ~gitLog[k].ok

\* The files written in this run are in place, each with the bytes of the
\* last entry written to it.
WrittenFilesInPlace ==
  \A k \in DOMAIN got :
    (got[k].wrote /\ \A j \in (k + 1)..Len(got) :
                       ~(got[j].wrote /\ got[j].path = got[k].path))
      => (got[k].path \in DOMAIN fs /\ fs[got[k].path] = got[k].buffer)

\* C9: a failed stage, commit or push is logged, leaves the written files
\* in place and ends the run with exit code 0.
C9_VersioningFailureSoft ==
  VersioningFailed
    => /\ pc = "exited" /\ exitCode = 0
       /\ Range(logs) \cap {"git-failed", "no-commit"} # {}
       /\ WrittenFilesInPlace
       /\ writes # <<>>

\* A run whose push failed has ended with exit code 0.
C9_Witness ==
  /\ pc = "exited" /\ exitCode = 0
  /\ \E k \in GitRuns("push") : ~gitLog[k].ok
  /\ writes # <<>>

\* The repository check failed.
NotInRepository ==
  \E k \in GitRuns("rev-parse") : ~gitLog[k].ok

\* C10: when the repository check fails after a destination changed, no
\* other git command runs, the written files stay and the run ends with
\* exit code 0.
C10_NoRepositorySkipsVersioning ==
  NotInRepository
    => /\ Len(gitLog) = 1
       /\ pc = "exited" /\ exitCode = 0
       /\ "git-skip" \in Range(logs)
       /\ changedFiles # <<>>
       /\ WrittenFilesInPlace

\* A run outside a repository that wrote a file has ended with exit code 0.
C10_Witness ==
  /\ NotInRepository
  /\ pc = "exited" /\ exitCode = 0
  /\ writes # <<>>
  /\ \A q \in Range(writes) : q \in DOMAIN fs

(***************************************************************************)
(* Properties of the changed accumulator (SpecTwice).                      *)
(***************************************************************************)
\* Entry k was fetched and a path was resolved for it.
Resolved(k) == got[k].kind = "ok" /\ got[k].path # <<>>

\* The entries of this run that were written.
Written == {k \in DOMAIN got : got[k].wrote}

\* The file at entry k's path when entry k was compared: what the last
\* entry written there before k left, else what the run found at its start.
FileBefore(k) ==
  LET earlier == {j \in 1..(k - 1) : got[j].wrote /\ got[j].path = got[k].path}
  IN  IF earlier # {}
        THEN [there |-> TRUE,
              bytes |-> got[CHOOSE j \in earlier :
                              \A h \in earlier : h <= j].buffer]
        ELSE IF got[k].path \in DOMAIN fs0
          THEN [there |-> TRUE, bytes |-> fs0[got[k].path]]
          ELSE [there |-> FALSE, bytes |-> <<>>]

\* C11: the changed accumulator holds exactly the destinations written in
\* this run, one for one and in order; an entry is written and recorded iff
\* no file was at its path or the file there differed from the fetched
\* bytes; an entry without a resolved path is neither written nor recorded.
C11_AccumulatorExact ==
  /\ changedFiles = writes
  /\ Len(changedFiles) = Cardinality(Written)
  /\ Range(changedFiles) = {got[k].path : k \in Written}
  /\ \A k \in DOMAIN got :
       /\ Resolved(k) =>
            (got[k].wrote <=> (~FileBefore(k).there
                               \/ FileBefore(k).bytes # got[k].buffer))
       /\ ~Resolved(k) => ~got[k].wrote

\* A second run has ended in which one entry found other bytes and was
\* written and recorded, and another found its own bytes and was not.
C11_Witness ==
  /\ run = "second" /\ pc = "exited"
  /\ Len(got) = 2
  /\ got[1].wrote /\ FileBefore(1).there
  /\ Resolved(2) /\ ~got[2].wrote
  /\ changedFiles = <<got[1].path>>

(***************************************************************************)
(* Properties of the order of a run (Spec).                                *)
(***************************************************************************)
\* Entry k has finished: written, found unchanged, skipped or failed.
Finished(k) == k \in DOMAIN got /\ got[k].kind # "stall"

\* C12: a git command has run only when every entry of the mapping has
\* finished, and there is one answer for each entry visited and none for
\* the others: no entry is retrieved twice in a run.
C12_GitAfterEveryEntryOnce ==
  /\ (gitLog # <<>> \/ pc \in {"revparse", "cfgName", "cfgEmail", "add",
                               "commit", "push"})
       => /\ i = Len(mapping)
          /\ \A k \in DOMAIN mapping : Finished(k)
  /\ Len(got) <= Len(mapping)
  /\ pc # "awaitBody" => Len(got) = i
  /\ pc = "awaitBody" => (Len(got) = i + 1 /\ gitLog = <<>>)

\* A run whose first entry timed out and whose second was written has
\* pushed: two answers for two entries, and git after both.
C12_Witness ==
  /\ pc = "exited"
  /\ Len(mapping) = 2 /\ Len(got) = 2
  /\ got[1].kind = "timeout"
  /\ got[2].wrote
  /\ \E k \in GitRuns("push") : gitLog[k].ok

=============================================================================
